---- MODULE Spec2Model ----
(***************************************************************************)
(* Reverse-mode automatic differentiation runtime of GUL.                  *)
(*                                                                         *)
(*   - the flat tape (Wengert list) of compilers/shared/runtime/stdlib.c   *)
(*   - the pointer graph of compilers/shared/runtime/grad_graph.c          *)
(*                                                                         *)
(* C doubles are modelled as exact rationals extended with +Inf, -Inf and  *)
(* NaN.  Rounding is not modelled (the values explored are small), and the *)
(* negative zero is identified with zero.                                  *)
(***************************************************************************)
EXTENDS Integers, Sequences, FiniteSets, TLC

VARIABLES
  global_tape,   \* stdlib.c: Tape {nodes[], count, active}
  vars,          \* stdlib.c: the malloc'ed ScalarVar objects; a handle is a position in vars, 0 is NULL
  prov,          \* history: how each handle of vars was made (call, arguments, session, tape state)
  sess,          \* history: number of gul_autograd_begin calls so far
  nback,         \* history: number of gul_run_backward passes since the last begin
  total_back,    \* history: number of gul_backward calls so far
  last_root,     \* history: h when the last call was gul_backward(h), else -1
  heap,          \* grad_graph.c: the malloc'ed GraphNode objects; a handle is a position in heap, 0 is NULL
  global_graph,  \* grad_graph.c: the ComputationalGraph global_graph points to, or the null graph
  crashed,       \* grad_graph.c: the process has dereferenced a null or wild pointer and is gone
  ret,           \* grad_graph.c: the last query and what it returned
  gprov,         \* history: how each node of heap was made
  gcalls,        \* history: numbers of gul_grad_begin and gul_backward calls so far
  pc,            \* position of the driver program (driver specifications)
  inp            \* inputs of the driver program (driver specifications)

tvars == <<global_tape, vars, prov, sess, nback, total_back, last_root>>
gvars == <<heap, global_graph, crashed, ret, gprov, gcalls>>
dvars == <<pc, inp>>
allvars == <<global_tape, vars, prov, sess, nback, total_back, last_root,
             heap, global_graph, crashed, ret, gprov, gcalls, pc, inp>>

----------------------------------------------------------------------------
(* Bounds of the model.                                                    *)

\* Capacity of the tape.  The program sets MAX_TAPE_NODES to 10000
\* (stdlib.c:122); the model checks a tape of this many slots.
MAX_TAPE_NODES == 6
\* Handles created in one behaviour of the open specification.
MaxVars == 3
\* gul_autograd_begin calls in one behaviour.
MaxSess == 2
\* gul_backward calls in one behaviour.
MaxBack == 2
\* GraphNode objects allocated in one behaviour of the open graph specification.
MaxNodes == 3
\* gul_backward calls in one behaviour of the open graph specification.
MaxGraphBack == 1
\* gul_var_pow is explored for exponents -MaxExp .. MaxExp.
MaxExp == 2
\* Handles created by the DAG-building specification.
MaxDagVars == 4
\* Leaf values of the driver programs range over -MaxLeaf .. MaxLeaf.
MaxLeaf == 3
\* Handles created after the tape is full in the capacity specification.
MaxCapExtra == 2

----------------------------------------------------------------------------
(* double arithmetic: [n, d] with d > 0 and gcd(n, d) = 1 is the rational  *)
(* n/d; d = 0 encodes the non-finite values: 1/0 = +Inf, -1/0 = -Inf,      *)
(* 0/0 = NaN.                                                              *)

Abs(x) == IF x < 0 THEN -x ELSE x
Sgn(x) == IF x < 0 THEN -1 ELSE IF x > 0 THEN 1 ELSE 0

RECURSIVE GCD(_, _)
GCD(a, b) == IF b = 0 THEN a ELSE GCD(b, a % b)

Norm(n, d) ==
  IF d = 0 THEN [n |-> Sgn(n), d |-> 0]
  ELSE LET g == GCD(Abs(n), Abs(d))
       IN [n |-> Sgn(n) * Sgn(d) * (Abs(n) \div g), d |-> Abs(d) \div g]

R(i) == [n |-> i, d |-> 1]
Q(n, d) == Norm(n, d)
NaN == [n |-> 0, d |-> 0]
PosInf == [n |-> 1, d |-> 0]
NegInf == [n |-> -1, d |-> 0]

\* x == 0.0 in C: false for NaN
IsZero(x) == x.n = 0 /\ x.d # 0
IsFinite(x) == x.d # 0
IsInteger(x) == x.d = 1

FNeg(a) == [n |-> -a.n, d |-> a.d]
\* a + b; Inf + (-Inf) = NaN
FAdd(a, b) ==
  IF a.d = 0 /\ b.d = 0 THEN (IF a = b THEN a ELSE NaN)
  ELSE IF a.d = 0 THEN a
  ELSE IF b.d = 0 THEN b
  ELSE LET g == GCD(a.d, b.d)
       IN Norm(a.n * (b.d \div g) + b.n * (a.d \div g), (a.d \div g) * b.d)
FSub(a, b) == FAdd(a, FNeg(b))
\* a * b; 0 * Inf = NaN
FMul(a, b) ==
  IF a.d = 0 \/ b.d = 0 THEN Norm(Sgn(a.n) * Sgn(b.n), 0)
  ELSE LET g1 == GCD(b.d, Abs(a.n))
           g2 == GCD(a.d, Abs(b.n))
       IN Norm((a.n \div g1) * (b.n \div g2), (a.d \div g2) * (b.d \div g1))
\* 1 / b; 1/0 = +Inf, 1/Inf = 0
FRecip(b) == Norm(b.d * (IF b.n < 0 THEN -1 ELSE 1), Abs(b.n))
\* a / b; x/0 = +-Inf, 0/0 = NaN
FDiv(a, b) == FMul(a, FRecip(b))

\* libm sin and cos, tabulated on SinArgs: exact at 0 (sin 0 = 0, cos 0 = 1);
\* at 1 the irrational results 0.841... and 0.540... are stood for by 4/5 and
\* 1/2.  gul_var_sin is explored for arguments of the table only.
SinArgs == {R(0), R(1)}
FSin(x) == IF x = R(0) THEN R(0) ELSE Q(4, 5)
FCos(x) == IF x = R(0) THEN R(1) ELSE Q(1, 2)

\* values given to leaves
LeafVals == {R(0), R(1), R(2)}
GraphLeafVals == {R(2)}

----------------------------------------------------------------------------
(* stdlib.c: the tape                                                      *)

\* OpType (stdlib.c:124-135); only these are ever recorded by the tape
OP_NONE == "OP_NONE"
OP_ADD == "OP_ADD"
OP_MUL == "OP_MUL"
OP_SIN == "OP_SIN"

\* a slot of the static array before any write: zero-initialised
ZeroNode == [op |-> OP_NONE, value |-> R(0), grad |-> R(0), parents |-> <<0, 0>>]

\* Tape global_tape = {.count = 0, .active = 0};
InitTape ==
  [nodes |-> [i \in 0 .. (MAX_TAPE_NODES - 1) |-> ZeroNode], count |-> 0, active |-> FALSE]

\* gul_autograd_begin without the reset of count
gul_autograd_begin_no_reset(t) == [t EXCEPT !.active = TRUE]

\* void gul_autograd_begin(): returns the tape
gul_autograd_begin(t) == [t EXCEPT !.count = 0, !.active = TRUE]

\* void gul_autograd_end()
gul_autograd_end(t) == [t EXCEPT !.active = FALSE]

\* tape_add_node without n->grad = 0.0: the slot keeps its old gradient
tape_add_node_keeps_grad(t, op, val, p1, p2) ==
  IF ~t.active THEN [idx |-> -1, tape |-> t]
  ELSE IF t.count >= MAX_TAPE_NODES THEN [idx |-> -1, tape |-> t]
  ELSE [idx |-> t.count,
        tape |-> [t EXCEPT !.count = t.count + 1,
                           !.nodes[t.count] =
                              [op |-> op, value |-> val, grad |-> t.nodes[t.count].grad,
                               parents |-> <<p1, p2>>]]]

\* tape_add_node with the capacity test off by one (count > MAX_TAPE_NODES)
tape_add_node_off_by_one(t, op, val, p1, p2) ==
  IF ~t.active THEN [idx |-> -1, tape |-> t]
  ELSE IF t.count > MAX_TAPE_NODES THEN [idx |-> -1, tape |-> t]
  ELSE [idx |-> t.count,
        tape |-> [t EXCEPT !.count = t.count + 1,
                           !.nodes = [i \in DOMAIN t.nodes |->
                                        IF i = t.count
                                        THEN [op |-> op, value |-> val, grad |-> R(0),
                                              parents |-> <<p1, p2>>]
                                        ELSE t.nodes[i]]]]

\* int tape_add_node(op, val, p1, p2): returns the index and the tape
tape_add_node(t, op, val, p1, p2) ==
  IF ~t.active THEN [idx |-> -1, tape |-> t]
  ELSE IF t.count >= MAX_TAPE_NODES THEN [idx |-> -1, tape |-> t]
  ELSE [idx |-> t.count,
        tape |-> [t EXCEPT !.count = t.count + 1,
                           !.nodes[t.count] =
                              [op |-> op, value |-> val, grad |-> R(0), parents |-> <<p1, p2>>]]]

\* gul_make_var without its else branch: the index of a variable made while
\* the tape is inactive is left as malloc returned it, here 0
gul_make_var_no_else(t, val) ==
  LET r == IF t.active THEN tape_add_node(t, OP_NONE, val, -1, -1)
           ELSE [idx |-> 0, tape |-> t]
  IN [v |-> [value |-> val, index |-> r.idx], tape |-> r.tape]

\* int64_t gul_make_var(double val): returns the new ScalarVar and the tape
gul_make_var(t, val) ==
  LET r == IF t.active THEN tape_add_node(t, OP_NONE, val, -1, -1)
           ELSE [idx |-> -1, tape |-> t]
  IN [v |-> [value |-> val, index |-> r.idx], tape |-> r.tape]

\* double gul_var_val(int64_t handle), handle 0 is NULL
gul_var_val(vs, handle) == IF handle = 0 THEN R(0) ELSE vs[handle].value

\* double gul_var_grad(int64_t handle)
gul_var_grad(t, vs, handle) ==
  IF handle = 0 THEN R(0)
  ELSE LET v == vs[handle]
       IN IF v.index >= 0 /\ v.index < t.count THEN t.nodes[v.index].grad ELSE R(0)

\* the three operators: gul_make_var(val) for the result, then re-indexing
\* the result when the tape is active and the operands are tracked
var_op(t, op, val, a, b_index, tracked) ==
  LET m == gul_make_var(t, val)
  IN IF m.tape.active /\ tracked
     THEN LET r == tape_add_node(m.tape, op, val, a.index, b_index)
          IN [v |-> [m.v EXCEPT !.index = r.idx], tape |-> r.tape]
     ELSE m

\* int64_t gul_var_add(a_ptr, b_ptr); a and b are the ScalarVar objects
gul_var_add(t, a, b) ==
  var_op(t, OP_ADD, FAdd(a.value, b.value), a, b.index, a.index >= 0 /\ b.index >= 0)

\* int64_t gul_var_mul(a_ptr, b_ptr)
gul_var_mul(t, a, b) ==
  var_op(t, OP_MUL, FMul(a.value, b.value), a, b.index, a.index >= 0 /\ b.index >= 0)

\* int64_t gul_var_sin(a_ptr)
gul_var_sin(t, a) ==
  var_op(t, OP_SIN, FSin(a.value), a, -1, a.index >= 0)

\* grad_add that assigns instead of accumulating
grad_add_overwrite(ns, p, x) == [ns EXCEPT ![p].grad = x]

\* grad_add accumulating into the value field instead of the gradient
grad_add_into_value(ns, p, x) == [ns EXCEPT ![p].value = FAdd(ns[p].value, x)]

\* nodes[p].grad += x
grad_add(ns, p, x) == [ns EXCEPT ![p].grad = FAdd(ns[p].grad, x)]

\* case OP_ADD of the loop body
rule_add(ns, g, p1, p2) ==
  LET n1 == IF p1 >= 0 THEN grad_add(ns, p1, g) ELSE ns
  IN IF p2 >= 0 THEN grad_add(n1, p2, g) ELSE n1

\* rule_mul with the contribution to the second operand forgotten
rule_mul_first_only(ns, g, p1, p2) ==
  IF p1 >= 0
  THEN grad_add(ns, p1, FMul(g, IF p2 >= 0 THEN ns[p2].value ELSE R(0)))
  ELSE ns

\* case OP_MUL of the loop body
rule_mul(ns, g, p1, p2) ==
  LET n1 == IF p1 >= 0
            THEN grad_add(ns, p1, FMul(g, IF p2 >= 0 THEN ns[p2].value ELSE R(0)))
            ELSE ns
  IN IF p2 >= 0
     THEN grad_add(n1, p2, FMul(g, IF p1 >= 0 THEN n1[p1].value ELSE R(0)))
     ELSE n1

\* rule_sin with sin in the place of cos
rule_sin_uses_sin(ns, g, p1) ==
  IF p1 >= 0 THEN grad_add(ns, p1, FMul(g, FSin(ns[p1].value))) ELSE ns

\* case OP_SIN of the loop body
rule_sin(ns, g, p1) ==
  IF p1 >= 0 THEN grad_add(ns, p1, FMul(g, FCos(ns[p1].value))) ELSE ns

\* backward_body that clears the gradient of node i after propagating it
backward_body_clears_own(ns, i) ==
  LET n == ns[i]
      g == n.grad
      p1 == n.parents[1]
      p2 == n.parents[2]
      after == IF g = R(0) THEN ns
               ELSE CASE n.op = OP_ADD -> rule_add(ns, g, p1, p2)
                      [] n.op = OP_MUL -> rule_mul(ns, g, p1, p2)
                      [] n.op = OP_SIN -> rule_sin(ns, g, p1)
                      [] OTHER -> ns
  IN [after EXCEPT ![i].grad = R(0)]

\* one iteration of the loop of gul_run_backward, at index i
backward_body(ns, i) ==
  LET n == ns[i]
      g == n.grad
      p1 == n.parents[1]
      p2 == n.parents[2]
  IN IF g = R(0) THEN ns
     ELSE CASE n.op = OP_ADD -> rule_add(ns, g, p1, p2)
            [] n.op = OP_MUL -> rule_mul(ns, g, p1, p2)
            [] n.op = OP_SIN -> rule_sin(ns, g, p1)
            [] OTHER -> ns

\* for (int i = root_idx; i >= 0; i--)
RECURSIVE backward_loop(_, _)
backward_loop(ns, i) ==
  IF i < 0 THEN ns ELSE backward_loop(backward_body(ns, i), i - 1)

\* gul_run_backward without the test root_idx >= global_tape.count
gul_run_backward_no_upper(t, root_idx) ==
  IF root_idx < 0 THEN t
  ELSE [t EXCEPT !.nodes = backward_loop([t.nodes EXCEPT ![root_idx].grad = R(1)], root_idx)]

\* void gul_run_backward(int root_idx): returns the tape
gul_run_backward(t, root_idx) ==
  IF root_idx < 0 \/ root_idx >= t.count THEN t
  ELSE [t EXCEPT !.nodes = backward_loop([t.nodes EXCEPT ![root_idx].grad = R(1)], root_idx)]

\* void gul_backward(int64_t root_ptr): returns the tape
gul_backward(t, vs, root_ptr) ==
  IF root_ptr # 0 /\ vs[root_ptr].index >= 0
  THEN gul_run_backward(t, vs[root_ptr].index)
  ELSE t

\* the pass run by gul_backward(root_ptr) reads cos only inside the table
TrigInTable(t, vs, root_ptr) ==
  root_ptr # 0 =>
    \A i \in 0 .. (MAX_TAPE_NODES - 1) :
      (i <= vs[root_ptr].index /\ t.nodes[i].op = OP_SIN /\ t.nodes[i].parents[1] >= 0)
        => t.nodes[t.nodes[i].parents[1]].value \in SinArgs

----------------------------------------------------------------------------
(* grad_graph.c: the pointer graph                                         *)

\* pow(a, b) of libm for an integer exponent b, by repeated multiplication:
\* pow(x, 0) = 1, pow(0, -1) = +Inf.  gul_var_pow is explored for integer
\* exponents only.
RECURSIVE FPow(_, _)
FPow(a, b) ==
  IF b.n = 0 THEN R(1)
  ELSE IF b.n > 0 THEN FMul(a, FPow(a, R(b.n - 1)))
  ELSE FRecip(FPow(a, R(0 - b.n)))

\* GradOp
OP_CONSTANT == "OP_CONSTANT"
OP_SUB == "OP_SUB"
OP_DIV == "OP_DIV"
OP_POW == "OP_POW"
GradOp ==
  {OP_CONSTANT, OP_ADD, OP_MUL, OP_SUB, OP_DIV, OP_POW,
   "OP_EXP", "OP_LOG", OP_SIN, "OP_COS", "OP_MATMUL"}

NULL == 0
\* a field malloc returned and nobody wrote
Uninit == -1
OP_UNINIT == "uninitialised"
\* a non-null pointer that points to no object
Wild == -2

\* global_graph = NULL
NullGraph ==
  [null |-> TRUE, nodes |-> <<>>, node_count |-> 0, capacity |-> 0, is_recording |-> 0]

\* the capacity gul_grad_begin sets.  The program sets 1024
\* (grad_graph.c:64); the model starts at this many slots.
INITIAL_CAPACITY == 2

\* What a use of undefined memory yields in one call: an uninitialised op
\* reads as u.op, an uninitialised pointer as u.left / u.right (null, or
\* non-null and pointing nowhere), and a freed node reads as its old
\* contents or, with u.fz, as zero bytes.
ZeroBytes ==
  [id |-> 0, op |-> OP_CONSTANT, value |-> R(0), grad |-> R(0), left |-> NULL,
   right |-> NULL, requires_grad |-> 0, visited |-> 0]

Rd(hp, p, f, u) ==
  IF hp[p].freed /\ u.fz THEN ZeroBytes[f]
  ELSE IF f = "op" /\ hp[p].op = OP_UNINIT THEN u.op
  ELSE IF f = "left" /\ hp[p].left = Uninit THEN u.left
  ELSE IF f = "right" /\ hp[p].right = Uninit THEN u.right
  ELSE hp[p][f]

\* free(p)
Free(hp, p) == [hp EXCEPT ![p].freed = TRUE]

RECURSIVE FreeAll(_, _, _)
FreeAll(hp, nodes, i) ==
  IF i > Len(nodes) THEN hp ELSE FreeAll(Free(hp, nodes[i]), nodes, i + 1)

\* void gul_grad_begin(): returns the heap and the graph
\* (grad_graph.c:63 reads sizeof(Computational Graph); it is taken as the
\* allocation of one ComputationalGraph.)
gul_grad_begin(hp, gg) ==
  [heap |-> IF ~gg.null THEN FreeAll(hp, gg.nodes, 1) ELSE hp,
   graph |-> [null |-> FALSE, nodes |-> <<>>, node_count |-> 0,
              capacity |-> INITIAL_CAPACITY, is_recording |-> 1]]

\* void gul_grad_end()
gul_grad_end(hp, gg) ==
  IF gg.null THEN [heap |-> hp, graph |-> gg]
  ELSE [heap |-> FreeAll(hp, gg.nodes, 1), graph |-> NullGraph]

\* GraphNode *create_node(op, value, left, right): returns the pointer, the
\* heap and the graph
create_node(hp, gg, op, value, left, right, u) ==
  IF gg.null \/ gg.is_recording = 0
  THEN [ptr |-> Len(hp) + 1,
        heap |-> Append(hp, [id |-> Uninit, op |-> OP_UNINIT, value |-> value,
                             grad |-> R(0), left |-> Uninit, right |-> Uninit,
                             requires_grad |-> 0, visited |-> Uninit, freed |-> FALSE]),
        graph |-> gg]
  ELSE LET rg == IF \/ (left # NULL /\ Rd(hp, left, "requires_grad", u) # 0)
                    \/ (right # NULL /\ Rd(hp, right, "requires_grad", u) # 0)
                 THEN 1 ELSE 0
           node == [id |-> gg.node_count, op |-> op, value |-> value, grad |-> R(0),
                    left |-> left, right |-> right, requires_grad |-> rg,
                    visited |-> 0, freed |-> FALSE]
           cap == IF gg.node_count >= gg.capacity THEN gg.capacity * 2 ELSE gg.capacity
       IN [ptr |-> Len(hp) + 1,
           heap |-> Append(hp, node),
           graph |-> [gg EXCEPT !.capacity = cap,
                                !.nodes = Append(gg.nodes, Len(hp) + 1),
                                !.node_count = gg.node_count + 1]]

\* int64_t gul_make_var(double value) of grad_graph.c
G_gul_make_var(hp, gg, value, u) ==
  LET r == create_node(hp, gg, OP_CONSTANT, value, NULL, NULL, u)
  IN [r EXCEPT !.heap[r.ptr].requires_grad = 1]

\* int64_t gul_var_add(a_ptr, b_ptr) of grad_graph.c
G_gul_var_add(hp, gg, a, b, u) ==
  create_node(hp, gg, OP_ADD, FAdd(Rd(hp, a, "value", u), Rd(hp, b, "value", u)), a, b, u)

\* int64_t gul_var_mul(a_ptr, b_ptr) of grad_graph.c
G_gul_var_mul(hp, gg, a, b, u) ==
  create_node(hp, gg, OP_MUL, FMul(Rd(hp, a, "value", u), Rd(hp, b, "value", u)), a, b, u)

\* int64_t gul_var_sub(a_ptr, b_ptr)
gul_var_sub(hp, gg, a, b, u) ==
  create_node(hp, gg, OP_SUB, FSub(Rd(hp, a, "value", u), Rd(hp, b, "value", u)), a, b, u)

\* int64_t gul_var_div(a_ptr, b_ptr)
gul_var_div(hp, gg, a, b, u) ==
  create_node(hp, gg, OP_DIV, FDiv(Rd(hp, a, "value", u), Rd(hp, b, "value", u)), a, b, u)

\* int64_t gul_var_pow(a_ptr, b_ptr)
gul_var_pow(hp, gg, a, b, u) ==
  create_node(hp, gg, OP_POW, FPow(Rd(hp, a, "value", u), Rd(hp, b, "value", u)), a, b, u)

\* The state of a backward pass: the heap, whether the process has crashed
\* (a null or wild pointer was dereferenced), whether freed memory was used
\* (stale) and whether uninitialised memory was used (garbage).
Crash(st) == [st EXCEPT !.crash = TRUE]

\* p->grad += x
G_grad_add(st, p, x, u) ==
  IF st.crash THEN st
  ELSE IF p = NULL \/ p = Wild THEN Crash(st)
  ELSE [st EXCEPT !.heap[p].grad = FAdd(Rd(st.heap, p, "grad", u), x),
                  !.stale = st.stale \/ st.heap[p].freed]

\* p->value; the pass has crashed when p cannot be dereferenced
G_value(st, p, u) ==
  IF p = NULL \/ p = Wild THEN R(0) ELSE Rd(st.heap, p, "value", u)
Deref(st, p) == IF p = NULL \/ p = Wild THEN Crash(st) ELSE st

\* case OP_ADD
G_rule_add(st, g, l, r, u) ==
  LET s1 == IF l # NULL THEN G_grad_add(st, l, g, u) ELSE st
  IN IF r # NULL THEN G_grad_add(s1, r, g, u) ELSE s1

\* G_rule_mul with each operand given its own value instead of the other's
G_rule_mul_own_value(st, g, l, r, u) ==
  LET s1 == IF l # NULL
            THEN G_grad_add(Deref(st, r), l, FMul(g, G_value(st, l, u)), u)
            ELSE st
  IN IF r # NULL
     THEN G_grad_add(Deref(s1, l), r, FMul(g, G_value(s1, r, u)), u)
     ELSE s1

\* case OP_MUL
G_rule_mul(st, g, l, r, u) ==
  LET s1 == IF l # NULL
            THEN G_grad_add(Deref(st, r), l, FMul(g, G_value(st, r, u)), u)
            ELSE st
  IN IF r # NULL
     THEN G_grad_add(Deref(s1, l), r, FMul(g, G_value(s1, l, u)), u)
     ELSE s1

\* case OP_SUB
G_rule_sub(st, g, l, r, u) ==
  LET s1 == IF l # NULL THEN G_grad_add(st, l, g, u) ELSE st
  IN IF r # NULL THEN G_grad_add(s1, r, FNeg(g), u) ELSE s1

\* G_rule_div with the divisor of the right operand's term not squared
G_rule_div_no_square(st, g, l, r, u) ==
  LET s1 == IF l # NULL
            THEN G_grad_add(Deref(st, r), l, FDiv(g, G_value(st, r, u)), u)
            ELSE st
  IN IF r # NULL
     THEN G_grad_add(Deref(s1, l), r,
                     FNeg(FDiv(FMul(g, G_value(s1, l, u)), G_value(s1, r, u))), u)
     ELSE s1

\* case OP_DIV
G_rule_div(st, g, l, r, u) ==
  LET s1 == IF l # NULL
            THEN G_grad_add(Deref(st, r), l, FDiv(g, G_value(st, r, u)), u)
            ELSE st
  IN IF r # NULL
     THEN G_grad_add(Deref(s1, l), r,
                     FNeg(FDiv(FMul(g, G_value(s1, l, u)),
                               FMul(G_value(s1, r, u), G_value(s1, r, u)))), u)
     ELSE s1

\* G_rule_pow without the factor node->right->value
G_rule_pow_no_factor(st, g, l, r, u) ==
  IF l # NULL
  THEN IF r = NULL \/ r = Wild \/ l = Wild THEN Crash(st)
       ELSE G_grad_add(st, l,
                       FMul(g, FPow(G_value(st, l, u), FSub(G_value(st, r, u), R(1)))), u)
  ELSE st

\* case OP_POW: nothing for the exponent
G_rule_pow(st, g, l, r, u) ==
  IF l # NULL
  THEN IF r = NULL \/ r = Wild \/ l = Wild THEN Crash(st)
       ELSE G_grad_add(st, l,
                       FMul(FMul(g, G_value(st, r, u)),
                            FPow(G_value(st, l, u), FSub(G_value(st, r, u), R(1)))), u)
  ELSE st

\* the switch of backward_pass
G_switch(st, op, g, l, r, u) ==
  CASE op = OP_ADD -> G_rule_add(st, g, l, r, u)
    [] op = OP_MUL -> G_rule_mul(st, g, l, r, u)
    [] op = OP_SUB -> G_rule_sub(st, g, l, r, u)
    [] op = OP_DIV -> G_rule_div(st, g, l, r, u)
    [] op = OP_POW -> G_rule_pow(st, g, l, r, u)
    [] OTHER -> st

\* void backward_pass(GraphNode *node)
RECURSIVE backward_pass(_, _, _)
backward_pass(st, node, u) ==
  IF st.crash \/ node = NULL THEN st
  ELSE IF node = Wild THEN Crash(st)
  ELSE LET hp == st.heap
           s0 == [st EXCEPT !.stale = st.stale \/ hp[node].freed]
       IN IF Rd(hp, node, "requires_grad", u) = 0 THEN s0
          ELSE LET l == Rd(hp, node, "left", u)
                   r == Rd(hp, node, "right", u)
                   s1 == [s0 EXCEPT !.garbage = s0.garbage \/ hp[node].op = OP_UNINIT
                                                        \/ hp[node].left = Uninit
                                                        \/ hp[node].right = Uninit]
                   s2 == G_switch(s1, Rd(hp, node, "op", u), Rd(hp, node, "grad", u), l, r, u)
               IN backward_pass(backward_pass(s2, l, u), r, u)

\* void gul_backward(int64_t output_ptr) of grad_graph.c: returns the state
\* of the pass
G_gul_backward(hp, output, u) ==
  IF output = NULL THEN [heap |-> hp, crash |-> FALSE, stale |-> FALSE, garbage |-> FALSE]
  ELSE backward_pass([heap |-> [hp EXCEPT ![output].grad = R(1)], crash |-> FALSE,
                      stale |-> hp[output].freed, garbage |-> FALSE], output, u)

\* double gul_var_grad(int64_t var_ptr) of grad_graph.c
G_gul_var_grad(hp, var, u) == IF var = NULL THEN R(0) ELSE Rd(hp, var, "grad", u)

\* double gul_var_value(int64_t var_ptr)
gul_var_value(hp, var, u) == IF var = NULL THEN R(0) ELSE Rd(hp, var, "value", u)

----------------------------------------------------------------------------
(* The calls as actions on the tape state.                                 *)

Handles == 1 .. Len(vars)

\* the history record of a new handle
Made(call, arg, a, b) ==
  [call |-> call, arg |-> arg, a |-> a, b |-> b, sess |-> sess, active |-> global_tape.active,
   full |-> global_tape.count >= MAX_TAPE_NODES]

Begin ==
  /\ global_tape' = gul_autograd_begin(global_tape)
  /\ sess' = sess + 1
  /\ nback' = 0
  /\ last_root' = -1
  /\ UNCHANGED <<vars, prov, total_back>>

End ==
  /\ global_tape' = gul_autograd_end(global_tape)
  /\ last_root' = -1
  /\ UNCHANGED <<vars, prov, sess, nback, total_back>>

MakeVar(val) ==
  LET r == gul_make_var(global_tape, val)
  IN /\ global_tape' = r.tape
     /\ vars' = Append(vars, r.v)
     /\ prov' = Append(prov, Made("var", val, 0, 0))
     /\ last_root' = -1
     /\ UNCHANGED <<sess, nback, total_back>>

VarAdd(a, b) ==
  LET r == gul_var_add(global_tape, vars[a], vars[b])
  IN /\ global_tape' = r.tape
     /\ vars' = Append(vars, r.v)
     /\ prov' = Append(prov, Made("add", R(0), a, b))
     /\ last_root' = -1
     /\ UNCHANGED <<sess, nback, total_back>>

VarMul(a, b) ==
  LET r == gul_var_mul(global_tape, vars[a], vars[b])
  IN /\ global_tape' = r.tape
     /\ vars' = Append(vars, r.v)
     /\ prov' = Append(prov, Made("mul", R(0), a, b))
     /\ last_root' = -1
     /\ UNCHANGED <<sess, nback, total_back>>

VarSin(a) ==
  LET r == gul_var_sin(global_tape, vars[a])
  IN /\ vars[a].value \in SinArgs
     /\ global_tape' = r.tape
     /\ vars' = Append(vars, r.v)
     /\ prov' = Append(prov, Made("sin", R(0), a, 0))
     /\ last_root' = -1
     /\ UNCHANGED <<sess, nback, total_back>>

\* gul_backward(h); h = 0 is the NULL handle
Backward(h) ==
  /\ TrigInTable(global_tape, vars, h)
  /\ global_tape' = gul_backward(global_tape, vars, h)
  /\ nback' = IF h # 0 /\ vars[h].index >= 0 /\ vars[h].index < global_tape.count
              THEN nback + 1 ELSE nback
  /\ total_back' = total_back + 1
  /\ last_root' = h
  /\ UNCHANGED <<vars, prov, sess>>

----------------------------------------------------------------------------
(* Open specification of the tape: any call, any handle made so far.       *)

\* ret before any query
NoQuery == [call |-> "none", h |-> NULL, val |-> R(0), freed |-> FALSE]

\* the program before any call
TapeStart ==
  /\ global_tape = InitTape
  /\ vars = <<>>
  /\ prov = <<>>
  /\ sess = 0
  /\ nback = 0
  /\ total_back = 0
  /\ last_root = -1

GraphStart ==
  /\ heap = <<>>
  /\ global_graph = NullGraph
  /\ crashed = FALSE
  /\ ret = NoQuery
  /\ gprov = <<>>
  /\ gcalls = [begin |-> 0, backward |-> 0]

TInit ==
  /\ TapeStart
  /\ GraphStart
  /\ pc = 0
  /\ inp = <<>>

CallBegin == sess < MaxSess /\ Begin /\ UNCHANGED <<dvars, gvars>>
CallEnd == End /\ UNCHANGED <<dvars, gvars>>
CallMakeVar == Len(vars) < MaxVars /\ (\E val \in LeafVals : MakeVar(val)) /\ UNCHANGED <<dvars, gvars>>
CallVarAdd == Len(vars) < MaxVars /\ (\E a, b \in Handles : VarAdd(a, b)) /\ UNCHANGED <<dvars, gvars>>
CallVarMul == Len(vars) < MaxVars /\ (\E a, b \in Handles : VarMul(a, b)) /\ UNCHANGED <<dvars, gvars>>
CallVarSin == Len(vars) < MaxVars /\ (\E a \in Handles : VarSin(a)) /\ UNCHANGED <<dvars, gvars>>
CallBackward ==
  total_back < MaxBack /\ (\E h \in 0 .. Len(vars) : Backward(h)) /\ UNCHANGED <<dvars, gvars>>

Next ==
  \/ CallBegin
  \/ CallEnd
  \/ CallMakeVar
  \/ CallVarAdd
  \/ CallVarMul
  \/ CallVarSin
  \/ CallBackward

Spec == TInit /\ [][Next]_allvars

----------------------------------------------------------------------------
(* Driver program on the tape: begin; x; y; s = x + y; z = s * s;          *)
(* backward(z).  The handles are x = 1, y = 2, s = 3, z = 4.               *)

DriverVals == {R(i) : i \in (0 - MaxLeaf) .. MaxLeaf}

TSharedInit ==
  /\ TapeStart
  /\ GraphStart
  /\ pc = "begin"
  /\ inp \in [x : DriverVals, y : DriverVals]

TSharedBegin == pc = "begin" /\ Begin /\ pc' = "x" /\ UNCHANGED <<inp, gvars>>
TSharedX == pc = "x" /\ MakeVar(inp.x) /\ pc' = "y" /\ UNCHANGED <<inp, gvars>>
TSharedY == pc = "y" /\ MakeVar(inp.y) /\ pc' = "s" /\ UNCHANGED <<inp, gvars>>
TSharedS == pc = "s" /\ VarAdd(1, 2) /\ pc' = "z" /\ UNCHANGED <<inp, gvars>>
TSharedZ == pc = "z" /\ VarMul(3, 3) /\ pc' = "backward" /\ UNCHANGED <<inp, gvars>>
TSharedBackward == pc = "backward" /\ Backward(4) /\ pc' = "done" /\ UNCHANGED <<inp, gvars>>

TSharedNext ==
  \/ TSharedBegin
  \/ TSharedX
  \/ TSharedY
  \/ TSharedS
  \/ TSharedZ
  \/ TSharedBackward

TSharedSpec == TSharedInit /\ [][TSharedNext]_allvars

\* C1: on the tape, after s = x + y, z = s * s in a fresh session and one
\* gul_backward(z), gul_var_grad(x) and gul_var_grad(y) are both 2 * (x + y).
C1_SharedSubexpression ==
  pc = "done" =>
    /\ gul_var_grad(global_tape, vars, 1) = FMul(R(2), FAdd(inp.x, inp.y))
    /\ gul_var_grad(global_tape, vars, 2) = FMul(R(2), FAdd(inp.x, inp.y))

C1_Witness ==
  /\ pc = "done"
  /\ inp = [x |-> R(3), y |-> R(2)]
  /\ last_root = 4
  /\ vars[4].value = R(25)
  /\ gul_var_grad(global_tape, vars, 1) = R(10)

----------------------------------------------------------------------------
(* DAG-building specification of the tape: one begin, then leaves, add and *)
(* mul over tracked handles of the session, then one gul_backward on a     *)
(* tracked handle.                                                         *)

Tracked(h) == vars[h].index >= 0

TDagInit ==
  /\ TapeStart
  /\ GraphStart
  /\ pc = "begin"
  /\ inp = <<>>

TDagBegin == pc = "begin" /\ Begin /\ pc' = "build" /\ UNCHANGED <<inp, gvars>>
TDagLeaf ==
  /\ pc = "build" /\ Len(vars) < MaxDagVars
  /\ \E val \in LeafVals : MakeVar(val)
  /\ UNCHANGED <<dvars, gvars>>
TDagAdd ==
  /\ pc = "build" /\ Len(vars) < MaxDagVars
  /\ \E a, b \in Handles : Tracked(a) /\ Tracked(b) /\ VarAdd(a, b)
  /\ UNCHANGED <<dvars, gvars>>
TDagMul ==
  /\ pc = "build" /\ Len(vars) < MaxDagVars
  /\ \E a, b \in Handles : Tracked(a) /\ Tracked(b) /\ VarMul(a, b)
  /\ UNCHANGED <<dvars, gvars>>
TDagBackward ==
  /\ pc = "build"
  /\ \E h \in Handles : Tracked(h) /\ Backward(h)
  /\ pc' = "done"
  /\ UNCHANGED <<inp, gvars>>

TDagNext ==
  \/ TDagBegin
  \/ TDagLeaf
  \/ TDagAdd
  \/ TDagMul
  \/ TDagBackward

TDagSpec == TDagInit /\ [][TDagNext]_allvars

\* the handles r depends on, from the history of the calls
RECURSIVE DependsOn(_)
DependsOn(r) ==
  IF r = 0 THEN {}
  ELSE {r} \cup DependsOn(prov[r].a) \cup DependsOn(prov[r].b)

\* d(consumer c)/d(its operand in the given slot), from the history:
\* 1 for add, the value of the other operand for mul
Partial(c, slot) ==
  IF prov[c].call = "add" THEN R(1)
  ELSE IF prov[c].call = "mul"
       THEN gul_var_val(vars, IF slot = 1 THEN prov[c].b ELSE prov[c].a)
       ELSE R(0)

\* what consumer c contributes to its operand h: once per slot holding h
Contribution(c, h) ==
  LET g == gul_var_grad(global_tape, vars, c)
  IN FAdd(IF prov[c].a = h THEN FMul(Partial(c, 1), g) ELSE R(0),
          IF prov[c].b = h THEN FMul(Partial(c, 2), g) ELSE R(0))

\* the sum of the contributions to h of the consumers 1 .. c
RECURSIVE UseSum(_, _)
UseSum(h, c) == IF c = 0 THEN R(0) ELSE FAdd(UseSum(h, c - 1), Contribution(c, h))

\* C4: on the tape, after one gul_backward(root) on a DAG of add and mul built
\* in a fresh session, the gradient of root is 1, the gradient of every other
\* tracked variable is the sum over its uses of (local partial * gradient of
\* the consumer), and a variable root does not depend on has gradient 0.
C4_ChainRuleSum ==
  pc = "done" =>
    /\ gul_var_grad(global_tape, vars, last_root) = R(1)
    /\ \A h \in Handles :
         (Tracked(h) /\ h # last_root) =>
           /\ gul_var_grad(global_tape, vars, h) = UseSum(h, Len(vars))
           /\ h \notin DependsOn(last_root) => gul_var_grad(global_tape, vars, h) = R(0)

\* a leaf used by two different consumers and twice by one of them, all
\* with a gradient
C4_Witness ==
  /\ pc = "done"
  /\ Len(vars) = 4
  /\ prov[1].call = "var"
  /\ prov[2].call = "mul" /\ prov[2].a = 1 /\ prov[2].b = 1
  /\ prov[3].call = "add" /\ prov[3].a = 2 /\ prov[3].b = 1
  /\ last_root = 3
  /\ vars[1].value = R(2)
  /\ gul_var_grad(global_tape, vars, 1) = R(5)

----------------------------------------------------------------------------
(* Claims on the open specification of the tape.                           *)

Grad(h) == gul_var_grad(global_tape, vars, h)

\* the forward value the call that made h had to compute, from the history
ForwardValue(h) ==
  LET m == prov[h]
  IN CASE m.call = "var" -> m.arg
       [] m.call = "add" -> FAdd(gul_var_val(vars, m.a), gul_var_val(vars, m.b))
       [] m.call = "mul" -> FMul(gul_var_val(vars, m.a), gul_var_val(vars, m.b))
       [] m.call = "sin" -> FSin(gul_var_val(vars, m.a))

\* every handle was made in the first session, while the tape was recording
FirstSessionOnly ==
  /\ sess = 1
  /\ \A h \in Handles : prov[h].sess = 1 /\ prov[h].active

\* C5: gul_backward(r) zeroes all gradients first: a second gul_backward(r)
\* in a row leaves every gradient as the first left it, and after
\* gul_backward(r1), gul_backward(r2) a variable r2 does not depend on has
\* gradient 0.
C5_BackwardZeroesFirst ==
  [][\A r \in Handles :
       (/\ FirstSessionOnly
        /\ Tracked(r)
        /\ last_root \in Handles
        /\ last_root' = r
        /\ total_back' = total_back + 1)
       => /\ last_root = r =>
               \A h \in Handles : gul_var_grad(global_tape', vars', h) = Grad(h)
          /\ \A h \in Handles :
               h \notin DependsOn(r) => gul_var_grad(global_tape', vars', h) = R(0)
    ]_allvars

\* C6: every recorded node i < count has each parent either -1 or less than
\* i, whatever handles the operators were given.
C6_Acyclic ==
  \A i \in 0 .. (MAX_TAPE_NODES - 1) :
    i < global_tape.count =>
      \A k \in 1 .. 2 :
        LET p == global_tape.nodes[i].parents[k] IN p = -1 \/ p < i

\* C7: after a later gul_autograd_begin, gul_var_grad is 0 for every handle
\* of an earlier session.
C7_StaleGradZero ==
  \A h \in Handles : prov[h].sess < sess => Grad(h) = R(0)

\* C9: a handle made while the tape is inactive has the right forward value,
\* and gul_var_grad is 0 for it in every later state.
C9_UntrackedGradZero ==
  \A h \in Handles :
    ~prov[h].active => gul_var_val(vars, h) = ForwardValue(h) /\ Grad(h) = R(0)

\* an operator result made before any begin; then a session whose backward
\* left a gradient, and a gul_backward on the untracked handle itself
C9_Witness ==
  /\ Len(vars) = 3
  /\ ~prov[1].active /\ prov[1].call = "var" /\ prov[1].arg = R(2)
  /\ ~prov[2].active /\ prov[2].call = "mul" /\ prov[2].a = 1 /\ prov[2].b = 1
  /\ vars[2].value = R(4)
  /\ prov[3].active /\ Grad(3) = R(1)
  /\ last_root = 2
  /\ total_back = 2

----------------------------------------------------------------------------
(* The calls of grad_graph.c as actions.                                   *)

Ptrs == 1 .. Len(heap)

\* no undefined memory is read
Defined == [op |-> OP_CONSTANT, left |-> NULL, right |-> NULL, fz |-> FALSE]

\* the outcomes of a call that reads freed memory (when stale holds)
FreedReads(stale) == IF stale THEN {Defined, [Defined EXCEPT !.fz = TRUE]} ELSE {Defined}

\* The outcomes of gul_backward(h).  The pass with stale contents and null
\* garbage pointers visits every node any outcome visits, so it tells which
\* undefined reads the call can meet.
Undefined(hp, h) ==
  LET st == G_gul_backward(hp, h, Defined)
  IN [op : IF st.garbage THEN GradOp ELSE {OP_CONSTANT},
      left : IF st.garbage THEN {NULL, Wild} ELSE {NULL},
      right : IF st.garbage THEN {NULL, Wild} ELSE {NULL},
      fz : IF st.stale THEN BOOLEAN ELSE {FALSE}]

Recording == ~global_graph.null /\ global_graph.is_recording # 0

\* the history record of a new node: the call, its arguments, whether the
\* graph was recording and, if it was, the number of the session (the
\* gul_grad_begin calls so far)
GMade(call, arg, a, b) ==
  [call |-> call, arg |-> arg, a |-> a, b |-> b, rec |-> Recording,
   sess |-> IF Recording THEN gcalls.begin ELSE 0]

\* a call can be made: the process is alive and the caller has taken the
\* result of its last query
Ready == ~crashed /\ ret = NoQuery

GBegin ==
  LET r == gul_grad_begin(heap, global_graph)
  IN /\ Ready
     /\ heap' = r.heap
     /\ global_graph' = r.graph
     /\ gcalls' = [gcalls EXCEPT !.begin = gcalls.begin + 1]
     /\ UNCHANGED ret
     /\ UNCHANGED <<crashed, gprov>>

GEnd ==
  LET r == gul_grad_end(heap, global_graph)
  IN /\ Ready
     /\ heap' = r.heap
     /\ global_graph' = r.graph
     /\ UNCHANGED ret
     /\ UNCHANGED <<crashed, gprov, gcalls>>

GMakeVar(val) ==
  \E u \in {Defined} :
    LET r == G_gul_make_var(heap, global_graph, val, u)
    IN /\ Ready
       /\ heap' = r.heap
       /\ global_graph' = r.graph
       /\ gprov' = Append(gprov, GMade("var", val, NULL, NULL))
       /\ UNCHANGED ret
       /\ UNCHANGED <<crashed, gcalls>>

\* the result of the binary operator named call
GOperator(call, a, b, u) ==
  CASE call = "add" -> G_gul_var_add(heap, global_graph, a, b, u)
    [] call = "mul" -> G_gul_var_mul(heap, global_graph, a, b, u)
    [] call = "sub" -> gul_var_sub(heap, global_graph, a, b, u)
    [] call = "div" -> gul_var_div(heap, global_graph, a, b, u)
    [] call = "pow" -> gul_var_pow(heap, global_graph, a, b, u)

GBinary(call, a, b) ==
  \E u \in FreedReads(heap[a].freed \/ heap[b].freed) :
    LET r == GOperator(call, a, b, u)
    IN /\ Ready
       /\ call = "pow" =>
            /\ IsInteger(heap[b].value)
            /\ Abs(heap[b].value.n) <= MaxExp
       /\ heap' = r.heap
       /\ global_graph' = r.graph
       /\ gprov' = Append(gprov, GMade(call, R(0), a, b))
       /\ UNCHANGED ret
       /\ UNCHANGED <<crashed, gcalls>>

GBackward(h) ==
  \E u \in Undefined(heap, h) :
    LET st == G_gul_backward(heap, h, u)
    IN /\ Ready
       /\ heap' = st.heap
       /\ crashed' = st.crash
       /\ gcalls' = [gcalls EXCEPT !.backward = gcalls.backward + 1]
       /\ UNCHANGED ret
       /\ UNCHANGED <<global_graph, gprov>>

GQueryGrad(h) ==
  \E u \in FreedReads(h # NULL /\ heap[h].freed) :
    /\ Ready
    /\ ret' = [call |-> "grad", h |-> h, val |-> G_gul_var_grad(heap, h, u),
               freed |-> h # NULL /\ heap[h].freed]
    /\ UNCHANGED <<heap, global_graph, crashed, gprov, gcalls>>

GQueryValue(h) ==
  \E u \in FreedReads(h # NULL /\ heap[h].freed) :
    /\ Ready
    /\ ret' = [call |-> "value", h |-> h, val |-> gul_var_value(heap, h, u),
               freed |-> h # NULL /\ heap[h].freed]
    /\ UNCHANGED <<heap, global_graph, crashed, gprov, gcalls>>

\* the caller takes the result of the query
GReturn ==
  /\ ret # NoQuery
  /\ ret' = NoQuery
  /\ UNCHANGED <<heap, global_graph, crashed, gprov, gcalls>>

----------------------------------------------------------------------------
(* Open specification of the pointer graph: any call, any handle so far.   *)

GInit ==
  /\ TapeStart
  /\ GraphStart
  /\ pc = 0
  /\ inp = <<>>

GCallBegin == gcalls.begin < MaxSess /\ GBegin /\ UNCHANGED <<dvars, tvars>>
GCallEnd == GEnd /\ UNCHANGED <<dvars, tvars>>
GCallMakeVar ==
  Len(heap) < MaxNodes /\ (\E val \in GraphLeafVals : GMakeVar(val)) /\ UNCHANGED <<dvars, tvars>>
GCallBinary ==
  /\ Len(heap) < MaxNodes
  /\ \E call \in {"add", "mul", "sub", "div", "pow"} : \E a, b \in Ptrs : GBinary(call, a, b)
  /\ UNCHANGED <<dvars, tvars>>
GCallBackward ==
  /\ gcalls.backward < MaxGraphBack
  /\ \E h \in 0 .. Len(heap) : GBackward(h)
  /\ UNCHANGED <<dvars, tvars>>
GCallGrad == (\E h \in 0 .. Len(heap) : GQueryGrad(h)) /\ UNCHANGED <<dvars, tvars>>
GCallValue == (\E h \in 0 .. Len(heap) : GQueryValue(h)) /\ UNCHANGED <<dvars, tvars>>
GCallReturn == GReturn /\ UNCHANGED <<dvars, tvars>>

GNext ==
  \/ GCallBegin
  \/ GCallEnd
  \/ GCallMakeVar
  \/ GCallBinary
  \/ GCallBackward
  \/ GCallGrad
  \/ GCallValue
  \/ GCallReturn

GSpec == GInit /\ [][GNext]_allvars

\* h was recorded in a session that a later gul_grad_begin or gul_grad_end
\* has destroyed
Stale(h) == gprov[h].rec /\ (global_graph.null \/ gprov[h].sess < gcalls.begin)

\* C8: after a second gul_grad_begin or after gul_grad_end, gul_var_grad(h)
\* and gul_var_value(h) on a handle h of the prior session read no freed node
\* and return 0.
C8_StaleQuerySafe ==
  (ret.call \in {"grad", "value"} /\ ret.h # NULL /\ Stale(ret.h)) =>
    ~ret.freed /\ ret.val = R(0)

\* C10: gul_var_grad(h) returns 0 for every handle h made by gul_make_var or
\* by an operator while no graph was recording, in every later state,
\* gul_backward(h) included.
C10_UntrackedGradZero ==
  (ret.call = "grad" /\ ret.h # NULL /\ ~gprov[ret.h].rec) => ret.val = R(0)

----------------------------------------------------------------------------
(* Driver program on the pointer graph: begin; x; y; s = x + y; z = s * s; *)
(* backward(z); grad(x); grad(y).  The handles are x = 1, y = 2, s = 3,    *)
(* z = 4.                                                                  *)

GSharedInit ==
  /\ TapeStart
  /\ GraphStart
  /\ pc = "begin"
  /\ inp \in [x : DriverVals, y : DriverVals]

GSharedBegin == pc = "begin" /\ GBegin /\ pc' = "x" /\ UNCHANGED <<inp, tvars>>
GSharedX == pc = "x" /\ GMakeVar(inp.x) /\ pc' = "y" /\ UNCHANGED <<inp, tvars>>
GSharedY == pc = "y" /\ GMakeVar(inp.y) /\ pc' = "s" /\ UNCHANGED <<inp, tvars>>
GSharedS == pc = "s" /\ GBinary("add", 1, 2) /\ pc' = "z" /\ UNCHANGED <<inp, tvars>>
GSharedZ == pc = "z" /\ GBinary("mul", 3, 3) /\ pc' = "backward" /\ UNCHANGED <<inp, tvars>>
GSharedBackward == pc = "backward" /\ GBackward(4) /\ pc' = "grad_x" /\ UNCHANGED <<inp, tvars>>
GSharedGradX == pc = "grad_x" /\ GQueryGrad(1) /\ pc' = "got_grad_x" /\ UNCHANGED <<inp, tvars>>
GSharedGotGradX == pc = "got_grad_x" /\ GReturn /\ pc' = "grad_y" /\ UNCHANGED <<inp, tvars>>
GSharedGradY == pc = "grad_y" /\ GQueryGrad(2) /\ pc' = "done" /\ UNCHANGED <<inp, tvars>>

GSharedNext ==
  \/ GSharedBegin
  \/ GSharedX
  \/ GSharedY
  \/ GSharedS
  \/ GSharedZ
  \/ GSharedBackward
  \/ GSharedGradX
  \/ GSharedGotGradX
  \/ GSharedGradY

GSharedSpec == GSharedInit /\ [][GSharedNext]_allvars

\* C2: on the pointer graph, after gul_grad_begin, s = x + y, z = s * s and
\* one gul_backward(z), gul_var_grad(x) and gul_var_grad(y) are both
\* 2 * (x + y).
C2_SharedSubexpression ==
  ret.call = "grad" => ret.val = FMul(R(2), FAdd(inp.x, inp.y))

----------------------------------------------------------------------------
(* Driver program on the pointer graph, test_grad_example with leaves x, c *)
(* and d: begin; x; x_squared = x * x; c; c_x = c * x; temp = x_squared +  *)
(* c_x; d; y = temp + d; backward(y); grad(x); value(y); end.  The handles *)
(* are x = 1, x_squared = 2, c = 3, c_x = 4, temp = 5, d = 6, y = 7.       *)

GPolyInit ==
  /\ TapeStart
  /\ GraphStart
  /\ pc = "begin"
  /\ inp \in [x : DriverVals, c : DriverVals, d : DriverVals]

GPolyBegin == pc = "begin" /\ GBegin /\ pc' = "x" /\ UNCHANGED <<inp, tvars>>
GPolyX == pc = "x" /\ GMakeVar(inp.x) /\ pc' = "x_squared" /\ UNCHANGED <<inp, tvars>>
GPolyXSquared == pc = "x_squared" /\ GBinary("mul", 1, 1) /\ pc' = "c" /\ UNCHANGED <<inp, tvars>>
GPolyC == pc = "c" /\ GMakeVar(inp.c) /\ pc' = "c_x" /\ UNCHANGED <<inp, tvars>>
GPolyCX == pc = "c_x" /\ GBinary("mul", 3, 1) /\ pc' = "temp" /\ UNCHANGED <<inp, tvars>>
GPolyTemp == pc = "temp" /\ GBinary("add", 2, 4) /\ pc' = "d" /\ UNCHANGED <<inp, tvars>>
GPolyD == pc = "d" /\ GMakeVar(inp.d) /\ pc' = "y" /\ UNCHANGED <<inp, tvars>>
GPolyY == pc = "y" /\ GBinary("add", 5, 6) /\ pc' = "backward" /\ UNCHANGED <<inp, tvars>>
GPolyBackward == pc = "backward" /\ GBackward(7) /\ pc' = "grad_x" /\ UNCHANGED <<inp, tvars>>
GPolyGradX == pc = "grad_x" /\ GQueryGrad(1) /\ pc' = "got_grad_x" /\ UNCHANGED <<inp, tvars>>
GPolyGotGradX == pc = "got_grad_x" /\ GReturn /\ pc' = "value_y" /\ UNCHANGED <<inp, tvars>>
GPolyValueY == pc = "value_y" /\ GQueryValue(7) /\ pc' = "got_value_y" /\ UNCHANGED <<inp, tvars>>
GPolyGotValueY == pc = "got_value_y" /\ GReturn /\ pc' = "end" /\ UNCHANGED <<inp, tvars>>
GPolyEnd == pc = "end" /\ GEnd /\ pc' = "done" /\ UNCHANGED <<inp, tvars>>

GPolyNext ==
  \/ GPolyBegin
  \/ GPolyX
  \/ GPolyXSquared
  \/ GPolyC
  \/ GPolyCX
  \/ GPolyTemp
  \/ GPolyD
  \/ GPolyY
  \/ GPolyBackward
  \/ GPolyGradX
  \/ GPolyGotGradX
  \/ GPolyValueY
  \/ GPolyGotValueY
  \/ GPolyEnd

GPolySpec == GPolyInit /\ [][GPolyNext]_allvars

\* x * x + c * x + d
Poly(x, c, d) == FAdd(FAdd(FMul(x, x), FMul(c, x)), d)

\* C3: on the pointer graph, for y = add(add(mul(x, x), mul(c, x)), d) built
\* after gul_grad_begin, gul_var_value(y) is x * x + c * x + d from the moment
\* y is built, and after one gul_backward(y) gul_var_grad(x) is 2 * x + c;
\* nothing on the way crashes or reads undefined memory.
C3_Polynomial ==
  /\ ~crashed
  /\ pc \in {"backward", "grad_x", "got_grad_x", "value_y"} =>
       gul_var_value(heap, 7, Defined) = Poly(inp.x, inp.c, inp.d)
  /\ pc \in {"grad_x", "got_grad_x", "value_y"} =>
       G_gul_var_grad(heap, 1, Defined) = FAdd(FMul(R(2), inp.x), inp.c)
  /\ ret.call = "grad" => ~ret.freed /\ ret.val = FAdd(FMul(R(2), inp.x), inp.c)
  /\ ret.call = "value" => ~ret.freed /\ ret.val = Poly(inp.x, inp.c, inp.d)

\* the test's case: x = 2, c = 3, d = 1 gives value 11 after gradient 7
C3_Witness ==
  /\ pc = "got_value_y"
  /\ inp = [x |-> R(2), c |-> R(3), d |-> R(1)]
  /\ ret = [call |-> "value", h |-> 7, val |-> R(11), freed |-> FALSE]
  /\ heap[1].grad = R(7)
  /\ gcalls.backward = 1

----------------------------------------------------------------------------
(* Capacity specification of the tape: begin; gul_make_var of 1, 2, 1, ... *)
(* until the tape is full; then any call, one gul_backward on any handle   *)
(* and a later begin included.                                             *)

CapVals == {R(1), R(2)}

TCapInit ==
  /\ TapeStart
  /\ GraphStart
  /\ pc = "begin"
  /\ inp = <<>>

TCapBegin == pc = "begin" /\ Begin /\ pc' = "fill" /\ UNCHANGED <<inp, gvars>>
TCapFill ==
  /\ pc = "fill"
  /\ MakeVar(R(1 + (Len(vars) % 2)))
  /\ pc' = IF global_tape'.count >= MAX_TAPE_NODES THEN "full" ELSE "fill"
  /\ UNCHANGED <<inp, gvars>>

CapRoom == pc = "full" /\ Len(vars) < MAX_TAPE_NODES + MaxCapExtra

\* the operands of the operators: the first two leaves (1 and 2; the other
\* leaves of the filling are like them) and the handles made since
CapOperands == {h \in Handles : h <= 2 \/ h > MAX_TAPE_NODES}

TCapMakeVar == CapRoom /\ (\E val \in CapVals : MakeVar(val)) /\ UNCHANGED <<dvars, gvars>>
TCapAdd == CapRoom /\ (\E a, b \in CapOperands : VarAdd(a, b)) /\ UNCHANGED <<dvars, gvars>>
TCapMul == CapRoom /\ (\E a, b \in CapOperands : VarMul(a, b)) /\ UNCHANGED <<dvars, gvars>>
TCapSin == CapRoom /\ (\E a \in CapOperands : VarSin(a)) /\ UNCHANGED <<dvars, gvars>>
TCapBackward ==
  /\ pc = "full"
  /\ total_back < 1
  /\ \E h \in 0 .. Len(vars) : Backward(h)
  /\ UNCHANGED <<dvars, gvars>>
TCapEnd == pc = "full" /\ End /\ UNCHANGED <<dvars, gvars>>
TCapAgain == pc = "full" /\ sess < MaxSess /\ Begin /\ UNCHANGED <<dvars, gvars>>

TCapNext ==
  \/ TCapBegin
  \/ TCapFill
  \/ TCapMakeVar
  \/ TCapAdd
  \/ TCapMul
  \/ TCapSin
  \/ TCapBackward
  \/ TCapEnd
  \/ TCapAgain

TCapSpec == TCapInit /\ [][TCapNext]_allvars

\* C11: the tape count never exceeds MAX_TAPE_NODES, and a handle returned
\* by gul_make_var, gul_var_add, gul_var_mul or gul_var_sin once the tape
\* holds MAX_TAPE_NODES nodes has the right forward value and index -1, and
\* gul_var_grad is 0 for it in every later state.
C11_FullTapeUntracked ==
  /\ global_tape.count <= MAX_TAPE_NODES
  /\ \A h \in Handles :
       prov[h].full =>
         /\ vars[h].index = -1
         /\ gul_var_val(vars, h) = ForwardValue(h)
         /\ Grad(h) = R(0)

\* an operator result made on the full, active tape from tracked operands;
\* then a gul_backward on a tracked handle, a new begin and a new handle
C11_Witness ==
  /\ Len(vars) = MAX_TAPE_NODES + 2
  /\ prov[MAX_TAPE_NODES + 1].full /\ prov[MAX_TAPE_NODES + 1].active
  /\ prov[MAX_TAPE_NODES + 1].call = "mul"
  /\ prov[MAX_TAPE_NODES + 1].a = 1 /\ prov[MAX_TAPE_NODES + 1].b = 2
  /\ vars[MAX_TAPE_NODES + 1].value = R(2)
  /\ total_back = 1
  /\ sess = 2
  /\ vars[MAX_TAPE_NODES + 2].index = 0

----------------------------------------------------------------------------
(* Further claims on the open specification of the pointer graph.          *)

\* C12: the capacity gul_grad_begin sets never changes while the session
\* lives, and once node_count equals the capacity no further node is
\* appended to the session.
C12_FixedCapacity ==
  ~global_graph.null =>
    /\ global_graph.capacity = INITIAL_CAPACITY
    /\ global_graph.node_count <= INITIAL_CAPACITY

----------------------------------------------------------------------------
(* Further claims on the open specification of the tape.                   *)

\* C13: with the tape under capacity, the handle of gul_var_add(a, b) or
\* gul_var_mul(a, b) is tracked (index >= 0) exactly when the tape was active
\* and a or b is tracked, and the handle of gul_var_sin(a) exactly when the
\* tape was active and a is tracked.
C13_TrackingRule ==
  \A h \in Handles :
    ~prov[h].full =>
      /\ prov[h].call \in {"add", "mul"} =>
           (Tracked(h) <=> (prov[h].active /\ (Tracked(prov[h].a) \/ Tracked(prov[h].b))))
      /\ prov[h].call = "sin" =>
           (Tracked(h) <=> (prov[h].active /\ Tracked(prov[h].a)))

----------------------------------------------------------------------------
(* Lockstep specification: each call is made on both implementations, the *)
(* tape of stdlib.c and the pointer graph of grad_graph.c, with the same   *)
(* arguments.  Handle h is vars[h] on the tape and heap[h] in the graph.   *)

BothInit ==
  /\ TapeStart
  /\ GraphStart
  /\ pc = 0
  /\ inp = <<>>

BothBegin == sess < MaxSess /\ Begin /\ GBegin /\ UNCHANGED dvars
BothEnd == End /\ GEnd /\ UNCHANGED dvars
BothMakeVar ==
  /\ Len(vars) < MaxVars
  /\ \E val \in GraphLeafVals : MakeVar(val) /\ GMakeVar(val)
  /\ UNCHANGED dvars
BothAdd ==
  /\ Len(vars) < MaxVars
  /\ \E a, b \in Handles : VarAdd(a, b) /\ GBinary("add", a, b)
  /\ UNCHANGED dvars
BothMul ==
  /\ Len(vars) < MaxVars
  /\ \E a, b \in Handles : VarMul(a, b) /\ GBinary("mul", a, b)
  /\ UNCHANGED dvars
BothBackward ==
  /\ gcalls.backward < MaxGraphBack
  /\ \E h \in 0 .. Len(vars) : Backward(h) /\ GBackward(h)
  /\ UNCHANGED dvars

BothNext ==
  \/ BothBegin
  \/ BothEnd
  \/ BothMakeVar
  \/ BothAdd
  \/ BothMul
  \/ BothBackward

BothSpec == BothInit /\ [][BothNext]_allvars

C15_EndInvalidates ==
  \A h \in Handles :
    (prov[h].active /\ prov[h].sess = sess /\ ~global_tape.active) => Grad(h) = R(0)

\* the owning session of h is live: h was recorded, and no begin or end
\* has been called since
Live(h) == prov[h].active /\ prov[h].sess = sess /\ global_tape.active

\* C16: while its session is live the forward value of a variable does not
\* change: gul_var_val(h) and the value in its tape node are the value
\* computed at construction, through any further calls and gul_backward.
C16_ValueImmutable ==
  \A h \in Handles :
    /\ gul_var_val(vars, h) = ForwardValue(h)
    /\ (Live(h) /\ Tracked(h)) =>
         /\ vars[h].index < global_tape.count
         /\ global_tape.nodes[vars[h].index].value = ForwardValue(h)

\* x = 2 and x * x in a live session, after two gul_backward(x * x) and a
\* further constructor call
C16_Witness ==
  /\ Len(vars) = 3
  /\ \A h \in Handles : Live(h) /\ Tracked(h)
  /\ prov[1].call = "var" /\ prov[1].arg = R(2)
  /\ prov[2].call = "mul" /\ prov[2].a = 1 /\ prov[2].b = 1
  /\ total_back = 2
  /\ Grad(1) = R(8)
  /\ global_tape.nodes[vars[2].index].value = R(4)

\* C17: as long as no gul_backward pass has run since the most recent
\* gul_autograd_begin, gul_var_grad is 0 for every handle, also when an
\* earlier session left gradients in slots the new session uses again.
C17_ZeroBeforeBackward ==
  nback = 0 => \A h \in 0 .. Len(vars) : gul_var_grad(global_tape, vars, h) = R(0)

\* session 1: x = 2, y = x * x, gul_backward(y), which leaves gradient 4 in
\* slot 0 and 1 in slot 2; session 2: a new variable in slot 0
C17_Witness ==
  /\ Len(vars) = 3
  /\ sess = 2 /\ nback = 0 /\ total_back = 1
  /\ prov[1].call = "var" /\ prov[1].arg = R(2) /\ prov[1].sess = 1 /\ vars[1].index = 0
  /\ prov[2].call = "mul" /\ prov[2].a = 1 /\ prov[2].b = 1 /\ vars[2].index = 2
  /\ global_tape.nodes[2].grad = R(1)
  /\ prov[3].sess = 2 /\ vars[3].index = 0
  /\ global_tape.count = 1

\* C19: on the tape, for a tracked leaf x, after z = gul_var_sin(x) and one
\* gul_backward(z) in the session, gul_var_grad(x) is cos of the value of x;
\* for x = 0 it is 1.
C19_SineRule ==
  \A z \in Handles :
    LET x == prov[z].a
    IN (/\ prov[z].call = "sin"
        /\ prov[x].call = "var"
        /\ Live(x) /\ Live(z)
        /\ nback = 1 /\ last_root = z) =>
         /\ Tracked(x) /\ Tracked(z)
         /\ Grad(z) = R(1)
         /\ Grad(x) = FCos(gul_var_val(vars, x))
         /\ gul_var_val(vars, x) = R(0) => Grad(x) = R(1)

\* x = 0, z = sin(x), gul_backward(z): the gradient of x is 1
C19_Witness ==
  /\ Len(vars) = 2
  /\ prov[1].call = "var" /\ prov[1].arg = R(0) /\ Live(1)
  /\ prov[2].call = "sin" /\ prov[2].a = 1 /\ Live(2)
  /\ nback = 1 /\ total_back = 1 /\ last_root = 2
  /\ vars[2].value = R(0)
  /\ Grad(1) = R(1)

\* C20: gul_var_val is 0 for an invalid handle: for the NULL handle, and for
\* a handle of a session that a later gul_autograd_begin has replaced.
C20_InvalidValueZero ==
  /\ gul_var_val(vars, 0) = R(0)
  /\ \A h \in Handles :
       (prov[h].active /\ prov[h].sess < sess) => gul_var_val(vars, h) = R(0)

\* C21: on the tape, in an active session with x a tracked leaf and c a
\* handle made while the tape was inactive, after z = gul_var_mul(x, c) and
\* gul_backward(z), gul_var_grad(x) is the value of c; after
\* z = gul_var_add(x, c) and gul_backward(z) it is 1.
C21_MixedOperands ==
  \A z \in Handles :
    LET x == prov[z].a
        c == prov[z].b
    IN (/\ prov[z].call \in {"add", "mul"}
        /\ prov[x].call = "var" /\ Live(x) /\ Tracked(x)
        /\ ~prov[c].active
        /\ Live(z)
        /\ nback = 1 /\ last_root = z) =>
         Grad(x) = IF prov[z].call = "mul" THEN gul_var_val(vars, c) ELSE R(1)

----------------------------------------------------------------------------
(* Driver program on the pointer graph: begin; a; b; z = a / b;            *)
(* backward(z); grad(a); grad(b).  The handles are a = 1, b = 2, z = 3.    *)

DivVals == {R(i) : i \in (0 - 2 * MaxLeaf) .. (2 * MaxLeaf)}

GDivInit ==
  /\ TapeStart
  /\ GraphStart
  /\ pc = "begin"
  /\ inp \in [a : DivVals, b : DriverVals]

GDivBegin == pc = "begin" /\ GBegin /\ pc' = "a" /\ UNCHANGED <<inp, tvars>>
GDivA == pc = "a" /\ GMakeVar(inp.a) /\ pc' = "b" /\ UNCHANGED <<inp, tvars>>
GDivB == pc = "b" /\ GMakeVar(inp.b) /\ pc' = "z" /\ UNCHANGED <<inp, tvars>>
GDivZ == pc = "z" /\ GBinary("div", 1, 2) /\ pc' = "backward" /\ UNCHANGED <<inp, tvars>>
GDivBackward == pc = "backward" /\ GBackward(3) /\ pc' = "grad_a" /\ UNCHANGED <<inp, tvars>>
GDivGradA == pc = "grad_a" /\ GQueryGrad(1) /\ pc' = "got_grad_a" /\ UNCHANGED <<inp, tvars>>
GDivGotGradA == pc = "got_grad_a" /\ GReturn /\ pc' = "grad_b" /\ UNCHANGED <<inp, tvars>>
GDivGradB == pc = "grad_b" /\ GQueryGrad(2) /\ pc' = "done" /\ UNCHANGED <<inp, tvars>>

GDivNext ==
  \/ GDivBegin
  \/ GDivA
  \/ GDivB
  \/ GDivZ
  \/ GDivBackward
  \/ GDivGradA
  \/ GDivGotGradA
  \/ GDivGradB

GDivSpec == GDivInit /\ [][GDivNext]_allvars

\* C18: on the pointer graph, for leaves a and b with b # 0, after
\* z = gul_var_div(a, b) and one gul_backward(z), gul_var_grad(a) is 1 / b
\* (times b it is 1) and gul_var_grad(b) is -a / (b * b) (times b * b it
\* is -a).
C18_DivisionRule ==
  (ret.call = "grad" /\ inp.b # R(0)) =>
    /\ ~ret.freed
    /\ IsFinite(ret.val)
    /\ ret.h = 1 => FMul(ret.val, inp.b) = R(1)
    /\ ret.h = 2 => FMul(ret.val, FMul(inp.b, inp.b)) = FNeg(inp.a)

\* a = 6, b = 3: the gradients are 1/3 and -2/3
C18_Witness ==
  /\ pc = "done"
  /\ inp = [a |-> R(6), b |-> R(3)]
  /\ heap[3].value = R(2)
  /\ heap[1].grad = Q(1, 3)
  /\ ret = [call |-> "grad", h |-> 2, val |-> Q(-2, 3), freed |-> FALSE]

----------------------------------------------------------------------------
(* Stepwise specification of gul_run_backward: a DAG is built as in the    *)
(* DAG-building specification; then gul_backward(h) on a tracked handle    *)
(* runs its loop one iteration per step.  inp.i is the loop variable,     *)
(* inp.done the indices the loop has processed.                            *)

\* gul_backward(h) up to the loop: the root's gradient is set to 1
TPassStart ==
  /\ pc = "build"
  /\ \E h \in Handles :
       /\ Tracked(h) /\ vars[h].index < global_tape.count
       /\ global_tape' = [global_tape EXCEPT !.nodes[vars[h].index].grad = R(1)]
       /\ inp' = [i |-> vars[h].index, done |-> {}]
       /\ last_root' = h
  /\ nback' = nback + 1
  /\ total_back' = total_back + 1
  /\ pc' = "loop"
  /\ UNCHANGED <<vars, prov, sess, gvars>>

\* one iteration of the loop, at index inp.i
TPassStep ==
  /\ pc = "loop" /\ inp.i >= 0
  /\ global_tape' = [global_tape EXCEPT !.nodes = backward_body(global_tape.nodes, inp.i)]
  /\ inp' = [i |-> inp.i - 1, done |-> inp.done \cup {inp.i}]
  /\ UNCHANGED <<vars, prov, sess, nback, total_back, last_root, pc, gvars>>

\* the loop ends and gul_backward returns
TPassReturn ==
  /\ pc = "loop" /\ inp.i < 0
  /\ pc' = "done"
  /\ UNCHANGED <<tvars, inp, gvars>>

TPassNext ==
  \/ TDagBegin
  \/ TDagLeaf
  \/ TDagAdd
  \/ TDagMul
  \/ TPassStart
  \/ TPassStep
  \/ TPassReturn

TPassSpec == TDagInit /\ [][TPassNext]_allvars

\* C22: during one gul_run_backward over a tape built from handles of the
\* current session, an iteration of the loop changes the gradient only of
\* nodes below the index it processes: no processed node, and not the node
\* itself, is modified, and every contribution comes from a higher index.
C22_PropagationOrder ==
  [][pc = "loop" =>
       \A j \in 0 .. (MAX_TAPE_NODES - 1) :
         global_tape'.nodes[j].grad # global_tape.nodes[j].grad =>
           j < inp.i /\ j \notin inp.done
    ]_allvars

\* x = 2, y = x * x (node 2), z = y + x (node 4), gul_backward(z): the
\* loop has processed 4, 3 and 2, x has received 1 from z and 4 from y
C22_Witness ==
  /\ pc = "loop"
  /\ Len(vars) = 3
  /\ prov[1].call = "var" /\ prov[1].arg = R(2)
  /\ prov[2].call = "mul" /\ prov[2].a = 1 /\ prov[2].b = 1
  /\ prov[3].call = "add" /\ prov[3].a = 2 /\ prov[3].b = 1
  /\ last_root = 3
  /\ inp.done = {4, 3, 2} /\ inp.i = 1
  /\ global_tape.nodes[2].grad = R(1)
  /\ global_tape.nodes[0].grad = R(5)

----------------------------------------------------------------------------
(* Visits of backward_pass.                                                *)

\* how many times backward_pass(node) runs its switch on target: once for
\* node itself if it is target, plus the visits of the two recursive calls
\* (grad_graph.c:176 and 223-226), on initialised, live nodes
RECURSIVE Visits(_, _, _)
Visits(hp, node, target) ==
  IF node = NULL \/ node = Wild THEN 0
  ELSE IF Rd(hp, node, "requires_grad", Defined) = 0 THEN 0
  ELSE (IF node = target THEN 1 ELSE 0)
       + Visits(hp, Rd(hp, node, "left", Defined), target)
       + Visits(hp, Rd(hp, node, "right", Defined), target)

\* C23: during one gul_backward(root), backward_pass applies the
\* contribution of each node to its operands at most once, also when the
\* node is reachable from root along several paths (here s of z = s * s).
C23_VisitedGuard ==
  pc \in {"grad_x", "got_grad_x", "grad_y", "done"} =>
    \A n \in Ptrs : Visits(heap, 4, n) <= 1

----------------------------------------------------------------------------
(* Driver program on the pointer graph: begin; a; b; z = pow(a, b);        *)
(* backward(z); grad(a); grad(b).  The handles are a = 1, b = 2, z = 3.    *)

ExpVals == {R(i) : i \in 0 .. MaxExp}

GPowInit ==
  /\ TapeStart
  /\ GraphStart
  /\ pc = "begin"
  /\ inp \in [a : DriverVals, b : ExpVals]

GPowBegin == pc = "begin" /\ GBegin /\ pc' = "a" /\ UNCHANGED <<inp, tvars>>
GPowA == pc = "a" /\ GMakeVar(inp.a) /\ pc' = "b" /\ UNCHANGED <<inp, tvars>>
GPowB == pc = "b" /\ GMakeVar(inp.b) /\ pc' = "z" /\ UNCHANGED <<inp, tvars>>
GPowZ == pc = "z" /\ GBinary("pow", 1, 2) /\ pc' = "backward" /\ UNCHANGED <<inp, tvars>>
GPowBackward == pc = "backward" /\ GBackward(3) /\ pc' = "grad_a" /\ UNCHANGED <<inp, tvars>>
GPowGradA == pc = "grad_a" /\ GQueryGrad(1) /\ pc' = "got_grad_a" /\ UNCHANGED <<inp, tvars>>
GPowGotGradA == pc = "got_grad_a" /\ GReturn /\ pc' = "grad_b" /\ UNCHANGED <<inp, tvars>>
GPowGradB == pc = "grad_b" /\ GQueryGrad(2) /\ pc' = "done" /\ UNCHANGED <<inp, tvars>>

GPowNext ==
  \/ GPowBegin
  \/ GPowA
  \/ GPowB
  \/ GPowZ
  \/ GPowBackward
  \/ GPowGradA
  \/ GPowGotGradA
  \/ GPowGradB

GPowSpec == GPowInit /\ [][GPowNext]_allvars

\* a to the n-th power for a natural number n, by repeated multiplication
RECURSIVE PowNat(_, _)
PowNat(a, n) == IF n = 0 THEN R(1) ELSE FMul(a, PowNat(a, n - 1))

\* the derivative of a^b in a for a natural number b: 0 for b = 0, else
\* b * a^(b-1)
Deriv(a, b) == IF b.n = 0 THEN R(0) ELSE FMul(b, PowNat(a, b.n - 1))

\* C24 as stated: for every leaf a and non-negative integer b, after
\* z = gul_var_pow(a, b) and one gul_backward(z), gul_var_grad(a) is
\* b * a^(b-1) and gul_var_grad(b) is 0.
C24_PowerRule_AsStated ==
  ret.call = "grad" =>
    /\ ret.h = 1 => ret.val = Deriv(inp.a, inp.b)
    /\ ret.h = 2 => ret.val = R(0)

\* C24, amended: gul_var_grad(a) is b * a^(b-1) unless a = 0 and b = 0,
\* where it is NaN (0 * pow(0, -1) = 0 * Inf); gul_var_grad(b) is 0.
C24_PowerRule ==
  ret.call = "grad" =>
    /\ ~ret.freed
    /\ (ret.h = 1 /\ ~(inp.a = R(0) /\ inp.b = R(0))) => ret.val = Deriv(inp.a, inp.b)
    /\ (ret.h = 1 /\ inp.a = R(0) /\ inp.b = R(0)) => ret.val = NaN
    /\ ret.h = 2 => ret.val = R(0)

\* a = 3, b = 2: z = 9, the gradient of a is 6 and that of b is 0
C24_Witness ==
  /\ pc = "done"
  /\ inp = [a |-> R(3), b |-> R(2)]
  /\ heap[3].value = R(9)
  /\ heap[1].grad = R(6)
  /\ ret = [call |-> "grad", h |-> 2, val |-> R(0), freed |-> FALSE]

----------------------------------------------------------------------------
(* The tape: invalid roots, node counts and the frame of gul_backward,     *)
(* under the open specification Spec.                                      *)

\* the step is a call gul_backward(last_root')
IsBackward == total_back' = total_back + 1

\* the root handle h of a call is refused by gul_backward / gul_run_backward
InvalidRoot(h) ==
  \/ h = 0
  \/ /\ h \in Handles
     /\ (vars[h].index < 0 \/ vars[h].index >= global_tape.count)

\* C25: gul_backward called with a nil handle, with an untracked handle
\* (index -1), or with a handle whose index is >= the current tape count
\* returns without changing any gradient or any other tape state.
C25_InvalidRootNoChange ==
  [][(IsBackward /\ InvalidRoot(last_root')) =>
       (global_tape' = global_tape /\ vars' = vars)]_allvars

\* gul_backward(h) was just refused for a handle h whose index is at or
\* above the count, on a tape that holds a non-zero gradient
C25_Witness ==
  /\ last_root \in Handles
  /\ vars[last_root].index >= global_tape.count
  /\ global_tape.count > 0
  /\ \E i \in 0 .. (global_tape.count - 1) : global_tape.nodes[i].grad # R(0)

\* the step is a call that returns a new handle, the last of vars'
IsMake == Len(vars') = Len(vars) + 1

\* the operands of the call that made the new handle are all tracked
OperandsTracked ==
  LET p == prov'[Len(vars')]
  IN /\ (p.a # 0 => vars[p.a].index >= 0)
     /\ (p.b # 0 => vars[p.b].index >= 0)

\* C27: every call to gul_make_var, gul_var_add, gul_var_mul or gul_var_sin
\* increases the tape count by exactly 1 when the returned handle is tracked
\* and by 0 otherwise, and any such call made while the tape is active with
\* count < MAX_TAPE_NODES and all operands tracked returns a tracked handle.
C27_OneNodePerVariable ==
  [][IsMake =>
       LET v == vars'[Len(vars')]
       IN /\ global_tape'.count - global_tape.count = (IF v.index >= 0 THEN 1 ELSE 0)
          /\ (global_tape.active /\ global_tape.count < MAX_TAPE_NODES /\ OperandsTracked)
               => v.index >= 0]_allvars

\* C28: gul_backward(root) changes nothing but gradient fields of tape nodes
\* with index <= root's index: the count, the active flag, every node's op,
\* value and parents, every handle's value and index, and the gradient of
\* every node with index greater than root's index are unchanged.
C28_BackwardFrame ==
  [][(IsBackward /\ last_root' \in Handles) =>
       /\ global_tape'.count = global_tape.count
       /\ global_tape'.active = global_tape.active
       /\ vars' = vars
       /\ \A i \in 0 .. (MAX_TAPE_NODES - 1) :
            /\ global_tape'.nodes[i].op = global_tape.nodes[i].op
            /\ global_tape'.nodes[i].value = global_tape.nodes[i].value
            /\ global_tape'.nodes[i].parents = global_tape.nodes[i].parents
            /\ (i > vars[last_root'].index =>
                  global_tape'.nodes[i].grad = global_tape.nodes[i].grad)]_allvars

----------------------------------------------------------------------------
(* Two threads in gul_make_var on one active tape.  The tape has no lock;  *)
(* global_tape.count++ (stdlib.c:171) is a load of count followed by a     *)
(* store of the loaded value plus one, and the threads interleave at       *)
(* these accesses.  pc[t] is the position of thread t, inp holds the       *)
(* arguments and the local idx of each thread.                             *)

Threads == {1, 2}

\* the tape and the handles after gul_autograd_begin and n calls gul_make_var(1)
RECURSIVE Filled(_)
Filled(n) ==
  IF n = 0 THEN [tape |-> gul_autograd_begin(InitTape), vs |-> <<>>]
  ELSE LET f == Filled(n - 1)
           r == gul_make_var(f.tape, R(1))
       IN [tape |-> r.tape, vs |-> Append(f.vs, r.v)]

\* the store of count++ that adds one to the count at the time of the store
count_store_rereads(t, idx) == [t EXCEPT !.count = t.count + 1]

\* the store of global_tape.count++: the value loaded into idx, plus one
count_store(t, idx) == [t EXCEPT !.count = idx + 1]

\* Node *n = &global_tape.nodes[idx]; n->op = op; ... n->parents[1] = p2;
node_store(t, idx, op, val, p1, p2) ==
  [t EXCEPT !.nodes[idx] = [op |-> op, value |-> val, grad |-> R(0), parents |-> <<p1, p2>>]]

RaceInit ==
  /\ inp \in [c0 : 0 .. (MAX_TAPE_NODES - 2), val : [Threads -> LeafVals],
               idx : [Threads -> {-1}], h : [Threads -> {0}]]
  /\ pc = [t \in Threads |-> "call"]
  /\ global_tape = Filled(inp.c0).tape
  /\ vars = Filled(inp.c0).vs
  /\ prov = [i \in 1 .. inp.c0 |->
              [call |-> "var", arg |-> R(1), a |-> 0, b |-> 0, sess |-> 1, active |-> TRUE,
               full |-> FALSE]]
  /\ sess = 1
  /\ nback = 0
  /\ total_back = 0
  /\ last_root = -1
  /\ GraphStart

\* gul_make_var: if (global_tape.active), then the two tests of tape_add_node
RaceTest(t) ==
  /\ pc[t] = "call"
  /\ pc' = [pc EXCEPT ![t] = IF global_tape.active /\ global_tape.count < MAX_TAPE_NODES
                              THEN "load" ELSE "return"]
  /\ UNCHANGED <<inp, tvars, gvars>>

\* int idx = global_tape.count++; the load
RaceLoad(t) ==
  /\ pc[t] = "load"
  /\ inp' = [inp EXCEPT !.idx[t] = global_tape.count]
  /\ pc' = [pc EXCEPT ![t] = "store"]
  /\ UNCHANGED <<tvars, gvars>>

\* int idx = global_tape.count++; the store
RaceStore(t) ==
  /\ pc[t] = "store"
  /\ global_tape' = count_store(global_tape, inp.idx[t])
  /\ pc' = [pc EXCEPT ![t] = "node"]
  /\ UNCHANGED <<inp, vars, prov, sess, nback, total_back, last_root, gvars>>

\* the writes of the node at idx
RaceNode(t) ==
  /\ pc[t] = "node"
  /\ global_tape' = node_store(global_tape, inp.idx[t], OP_NONE, inp.val[t], -1, -1)
  /\ pc' = [pc EXCEPT ![t] = "return"]
  /\ UNCHANGED <<inp, vars, prov, sess, nback, total_back, last_root, gvars>>

\* v->index = idx; v->value = val; return (int64_t)v;
RaceReturn(t) ==
  /\ pc[t] = "return"
  /\ vars' = Append(vars, [value |-> inp.val[t], index |-> inp.idx[t]])
  /\ prov' = Append(prov, Made("var", inp.val[t], 0, 0))
  /\ inp' = [inp EXCEPT !.h[t] = Len(vars) + 1]
  /\ pc' = [pc EXCEPT ![t] = "done"]
  /\ UNCHANGED <<global_tape, sess, nback, total_back, last_root, gvars>>

RaceNext ==
  \/ \E t \in Threads : RaceTest(t)
  \/ \E t \in Threads : RaceLoad(t)
  \/ \E t \in Threads : RaceStore(t)
  \/ \E t \in Threads : RaceNode(t)
  \/ \E t \in Threads : RaceReturn(t)

RaceSpec == RaceInit /\ [][RaceNext]_allvars

\* both calls have returned
RaceDone == \A t \in Threads : pc[t] = "done"

\* C26: the tape has no synchronization: two threads each executing
\* gul_make_var on an active tape with at least two free slots, count++ being
\* a separate read and write, can receive the same index with the count
\* grown by only one (C26_Witness is that outcome).  Over all interleavings
\* the two handles are tracked, they have the same index exactly when the
\* count grew by one instead of two, and then the one node they share holds
\* the value of one call only.
C26_LostUpdate ==
  RaceDone =>
    LET i1 == vars[inp.h[1]].index
        i2 == vars[inp.h[2]].index
    IN /\ i1 >= inp.c0 /\ i2 >= inp.c0
       /\ (i1 = i2) <=> (global_tape.count = inp.c0 + 1)
       /\ (i1 # i2) <=> (global_tape.count = inp.c0 + 2)
       /\ (i1 = i2) => /\ i1 = inp.c0
                        /\ global_tape.nodes[i1].value \in {inp.val[1], inp.val[2]}

\* both calls returned the index c0 and the count is c0 + 1; the calls had
\* different values, so one of the two handles reads a node that is not its own
C26_Witness ==
  /\ RaceDone
  /\ inp.val[1] # inp.val[2]
  /\ vars[inp.h[1]].index = inp.c0
  /\ vars[inp.h[2]].index = inp.c0
  /\ global_tape.count = inp.c0 + 1
  /\ global_tape.nodes[inp.c0].value # gul_var_val(vars, inp.h[1])

----------------------------------------------------------------------------
(* parallel_exec.c: gul_parallel_for.  The main thread runs the call; each *)
(* worker created by pthread_create runs worker_thread on its task and     *)
(* interleaves with the main thread and with the other workers.  body(i)   *)
(* is recorded in inp.calls[i].  pthread_create and malloc succeed.        *)

\* #define MAX_THREADS 16, scaled down
MAX_THREADS == 3

\* the literal 100 of "range < 100" (parallel_exec.c:43), scaled down with
\* MAX_THREADS so that it stays above it
SEQ_LIMIT == MAX_THREADS + 1

\* the longest range of the calls made
MaxRange == 6

\* the indices body can be asked about
CallDomain == (0 - 2) .. (MaxRange + 2)

\* int64_t num_threads = range < MAX_THREADS ? range : MAX_THREADS;
num_threads(range) == IF range < MAX_THREADS THEN range ELSE MAX_THREADS

\* current_chunk without the share of the remainder
current_chunk_no_remainder(range, n, t) == range \div n

\* chunk_size + (t < remainder ? 1 : 0), with chunk_size = range / num_threads
\* and remainder = range % num_threads; range > 0 here
current_chunk(range, n, t) == (range \div n) + (IF t < range % n THEN 1 ELSE 0)

\* body(i)
body(calls, i) == [calls EXCEPT ![i] = @ + 1]

ParInit ==
  /\ TapeStart
  /\ GraphStart
  /\ pc = "call"
  /\ \E s \in (0 - 1) .. 1 : \E e \in (s - 1) .. (s + MaxRange) :
       inp = [start |-> s, end |-> e, i |-> 0, t |-> 0, current_start |-> 0,
              num_threads |-> 0, tasks |-> <<>>, calls |-> [k \in CallDomain |-> 0]]

\* entry of gul_parallel_for up to the choice of the path
ParCall ==
  /\ pc = "call"
  /\ IF inp.end <= inp.start
     THEN pc' = "returned" /\ inp' = inp
     ELSE LET range == inp.end - inp.start
              n == num_threads(range)
          IN IF n = 1 \/ range < SEQ_LIMIT
             THEN pc' = "seq" /\ inp' = [inp EXCEPT !.i = inp.start]
             ELSE /\ pc' = "spawn"
                  /\ inp' = [inp EXCEPT !.num_threads = n, !.t = 0,
                                         !.current_start = inp.start]
  /\ UNCHANGED <<tvars, gvars>>

\* for (int64_t i = start; i < end; i++) body(i);
ParSeqBody ==
  /\ pc = "seq"
  /\ inp.i < inp.end
  /\ inp' = [inp EXCEPT !.calls = body(inp.calls, inp.i), !.i = inp.i + 1]
  /\ UNCHANGED <<pc, tvars, gvars>>

ParSeqReturn ==
  /\ pc = "seq"
  /\ inp.i >= inp.end
  /\ pc' = "returned"
  /\ UNCHANGED <<inp, tvars, gvars>>

\* one iteration of the loop that fills ctx.tasks[t] and creates its thread
ParSpawn ==
  /\ pc = "spawn"
  /\ inp.t < inp.num_threads
  /\ LET chunk == current_chunk(inp.end - inp.start, inp.num_threads, inp.t)
     IN inp' = [inp EXCEPT
                  !.tasks = Append(inp.tasks,
                                   [start |-> inp.current_start,
                                    end |-> inp.current_start + chunk,
                                    i |-> inp.current_start, finished |-> FALSE]),
                  !.current_start = inp.current_start + chunk,
                  !.t = inp.t + 1]
  /\ UNCHANGED <<pc, tvars, gvars>>

ParSpawnDone ==
  /\ pc = "spawn"
  /\ inp.t >= inp.num_threads
  /\ pc' = "join"
  /\ inp' = [inp EXCEPT !.t = 0]
  /\ UNCHANGED <<tvars, gvars>>

\* worker_thread: one iteration of for (i = task->start; i < task->end; i++)
WorkerBody(w) ==
  /\ ~inp.tasks[w].finished
  /\ inp.tasks[w].i < inp.tasks[w].end
  /\ inp' = [inp EXCEPT !.calls = body(inp.calls, inp.tasks[w].i),
                         !.tasks[w].i = inp.tasks[w].i + 1]
  /\ UNCHANGED <<pc, tvars, gvars>>

\* worker_thread: return NULL
WorkerReturn(w) ==
  /\ ~inp.tasks[w].finished
  /\ inp.tasks[w].i >= inp.tasks[w].end
  /\ inp' = [inp EXCEPT !.tasks[w].finished = TRUE]
  /\ UNCHANGED <<pc, tvars, gvars>>

\* pthread_join(ctx.tasks[t].thread_id, NULL) returns when thread t has ended
ParJoin ==
  /\ pc = "join"
  /\ inp.t < inp.num_threads
  /\ inp.tasks[inp.t + 1].finished
  /\ inp' = [inp EXCEPT !.t = inp.t + 1]
  /\ UNCHANGED <<pc, tvars, gvars>>

\* free(ctx.tasks) and return; the tasks are kept as a record of the chunks
ParReturn ==
  /\ pc = "join"
  /\ inp.t >= inp.num_threads
  /\ pc' = "returned"
  /\ UNCHANGED <<inp, tvars, gvars>>

ParNext ==
  \/ ParCall
  \/ ParSeqBody
  \/ ParSeqReturn
  \/ ParSpawn
  \/ ParSpawnDone
  \/ \E w \in 1 .. Len(inp.tasks) : WorkerBody(w)
  \/ \E w \in 1 .. Len(inp.tasks) : WorkerReturn(w)
  \/ ParJoin
  \/ ParReturn

ParSpec == ParInit /\ [][ParNext]_allvars

\* the chunks of the tasks are contiguous from start to end
ChunksPartition ==
  LET n == Len(inp.tasks)
  IN /\ n = inp.num_threads
     /\ inp.tasks[1].start = inp.start
     /\ inp.tasks[n].end = inp.end
     /\ \A t \in 1 .. n : inp.tasks[t].start <= inp.tasks[t].end
     /\ \A t \in 1 .. (n - 1) : inp.tasks[t].end = inp.tasks[t + 1].start

\* C29: gul_parallel_for(start, end, body): for every start < end, on the
\* sequential and on the threaded path, the worker chunks are contiguous,
\* pairwise disjoint and cover [start, end); body is invoked exactly once for
\* every index in [start, end) and for no other index, all invocations are
\* complete when the call returns, and for end <= start body is never invoked.
C29_ParallelFor ==
  /\ \A k \in CallDomain :
       /\ inp.calls[k] <= 1
       /\ (k < inp.start \/ k >= inp.end) => inp.calls[k] = 0
  /\ (pc \in {"join", "returned"} /\ inp.tasks # <<>>) => ChunksPartition
  /\ pc = "returned" =>
       \A k \in CallDomain : (inp.start <= k /\ k < inp.end) => inp.calls[k] = 1

\* a call on the threaded path with a remainder has returned
C29_Witness ==
  /\ pc = "returned"
  /\ Len(inp.tasks) = MAX_THREADS
  /\ (inp.end - inp.start) % MAX_THREADS # 0
  /\ \A t \in 1 .. MAX_THREADS : inp.tasks[t].finished
  /\ \A k \in CallDomain : (inp.start <= k /\ k < inp.end) => inp.calls[k] = 1

----------------------------------------------------------------------------
(* parallel_exec.c: gul_parallel_reduce, a function of its arguments (the  *)
(* "parallel" reduction runs its chunks one after the other in the caller).*)
(* input is the array as a sequence: input[i] of the code is input[i + 1]. *)

\* the longest input array
MaxLen == 4

\* the reducers passed: integer addition and integer maximum
Reducers == {"add", "max"}

\* reducer(x, y)
reducer(f, x, y) ==
  CASE f = "add" -> x + y
    [] f = "max" -> IF x > y THEN x ELSE y

\* for (i = start; i < end; i++) acc = reducer(acc, input[i]);
RECURSIVE reduce_chunk(_, _, _, _, _)
reduce_chunk(f, input, acc, i, end) ==
  IF i >= end THEN acc
  ELSE reduce_chunk(f, input, reducer(f, acc, input[i + 1]), i + 1, end)

\* partial_results[t] after the loop over the chunks
partial_result(f, input, length, n, t, initial) ==
  LET chunk_size == length \div n
      start == t * chunk_size
      end == IF t = n - 1 THEN length ELSE (t + 1) * chunk_size
  IN reduce_chunk(f, input, initial, start, end)

\* for (t = 0; t < num_threads; t++) result = reducer(result, partial_results[t]);
RECURSIVE final_reduction(_, _, _, _, _)
final_reduction(f, partial_results, result, t, n) ==
  IF t >= n THEN result
  ELSE final_reduction(f, partial_results, reducer(f, result, partial_results[t]), t + 1, n)

\* int64_t gul_parallel_reduce(input, length, reducer, initial)
gul_parallel_reduce(input, length, f, initial) ==
  IF length = 0 THEN initial
  ELSE IF length = 1 THEN reducer(f, initial, input[1])
  ELSE LET n == IF length < MAX_THREADS THEN length ELSE MAX_THREADS
           partial_results == [t \in 0 .. (n - 1) |->
                                 partial_result(f, input, length, n, t, initial)]
       IN final_reduction(f, partial_results, initial, 0, n)

\* the input arrays
Arrays == UNION {[1 .. len -> 0 .. 2] : len \in 0 .. MaxLen}

ReduceInit ==
  /\ TapeStart
  /\ GraphStart
  /\ pc = "call"
  /\ inp \in [input : Arrays, reducer : Reducers, initial : (0 - 1) .. 1, result : {0}]

\* result = gul_parallel_reduce(input, length, reducer, initial)
ReduceCall ==
  /\ pc = "call"
  /\ inp' = [inp EXCEPT !.result =
                gul_parallel_reduce(inp.input, Len(inp.input), inp.reducer, inp.initial)]
  /\ pc' = "returned"
  /\ UNCHANGED <<tvars, gvars>>

ReduceNext == ReduceCall

ReduceSpec == ReduceInit /\ [][ReduceNext]_allvars

\* the sequential left fold of reducer over input starting from initial
RECURSIVE LeftFold(_, _, _)
LeftFold(f, input, initial) ==
  IF input = <<>> THEN initial
  ELSE reducer(f, LeftFold(f, SubSeq(input, 1, Len(input) - 1), initial), input[Len(input)])

\* C30: gul_parallel_reduce(input, length, reducer, initial) returns the
\* sequential left fold of reducer over input[0..length-1] starting from
\* initial, for every length >= 0, every initial value and every associative
\* and commutative reducer; lengths >= 2 agree with lengths 0 and 1.
C30_ReduceIsLeftFold ==
  pc = "returned" => inp.result = LeftFold(inp.reducer, inp.input, inp.initial)

====
